---------------------------- MODULE Spec2Model ----------------------------
(***************************************************************************)
(* Incremental crawl-and-resume pipeline of the auction scrapers.          *)
(*                                                                         *)
(* Two programs are modelled, selected by the variable site:               *)
(*   "menzies" : src/auction_scraper.py                                    *)
(*   "dh"      : src/deutscherandhackett_scraper.py                        *)
(* The web (listing page, auction detail pages, lot pages) and the file    *)
(* system are the environment: every fetch and every file operation draws  *)
(* its outcome from a small set.                                           *)
(***************************************************************************)
EXTENDS Integers, Sequences, FiniteSets, TLC

(* ------------------------------ bounds -------------------------------- *)

\* longest listing page (catalogue entries) the environment serves
MaxEntries == 2
\* most rows on one auction detail page
MaxRows == 2
\* most detail pages an auction has (the last one carries no next-page link)
MaxPage == 2
\* most runs of main() in one behaviour of the pipeline
MaxRuns == 2

(* --------------------------- program constants ------------------------ *)

\* range(2015, 2026) of valid_years
MinYear == 2015
MaxYear == 2025
\* "Stopping at year": int(year) <= 2014
DHStopYear == 2014

MenziesBase == "https://www.menziesartbrands.com"
DHBase == "https://www.deutscherandhackett.com"

Sites == {"menzies", "dh"}

(* ------------------------------ helpers ------------------------------- *)

Range(s) == {s[i] : i \in 1..Len(s)}

SeqsUpTo(S, n) == UNION {[1..k -> S] : k \in 0..n}

RECURSIVE SelectSeqIdx(_, _, _)
\* the indices i (ascending) of s, from i on, with keep[i]
SelectSeqIdx(s, keep, i) ==
    IF i > Len(s) THEN <<>>
    ELSE (IF keep[i] THEN <<i>> ELSE <<>>) \o SelectSeqIdx(s, keep, i + 1)

(* ------------------------- text conversions --------------------------- *)

\* Python's None where a string is expected
NoneStr == "<None>"
\* int() raising ValueError
NotAnInt == -1

DigitStr(d) == <<"0", "1", "2", "3", "4", "5", "6", "7", "8", "9">>[d + 1]

RECURSIVE NatStr(_)
\* str(n) for a natural number
NatStr(n) == IF n < 10 THEN DigitStr(n) ELSE NatStr(n \div 10) \o DigitStr(n % 10)

Pad3(n) == DigitStr(n \div 100) \o DigitStr((n \div 10) % 10) \o DigitStr(n % 10)

RECURSIVE Thousands(_)
\* f"{n:,}"
Thousands(n) ==
    IF n < 1000 THEN NatStr(n) ELSE Thousands(n \div 1000) \o "," \o Pad3(n % 1000)

\* the texts a price span of a Menzies lot page carries in this model
PriceTexts == {"1,200", "POA"}

\* price_text.replace(",", "") followed by int(price_text)
ParsePriceText(text) ==
    CASE text = "1,200" -> 1200
      [] OTHER -> NotAnInt

\* the try/except of lines 175-180: f"${price_num:,}" or no price
FormatSoldPrice(text) ==
    IF ParsePriceText(text) = NotAnInt THEN NoneStr
    ELSE "$" \o Thousands(ParsePriceText(text))

\* the texts div.field-price-sold of a D+H lot page carries in this model
DHPriceTexts == {"Sold for $1,200 in Auction 38", "Sold for in Auction 38"}

\* get_text(strip=True).split("in")[0].replace("Sold for", "").strip()
DHSoldPriceText(text) ==
    CASE text = "Sold for $1,200 in Auction 38" -> "$1,200"
      [] text = "Sold for in Auction 38" -> ""
      [] OTHER -> text

(* ------------------------- the listing page --------------------------- *)

\* year = None
NoYear == 0

(* A catalogue entry of the listing markup:                                *)
(*   href   : the href of the entry's auction link, "" when it has none    *)
(*   date   : the four-digit number in the text of p.pageCatDesc, NoYear   *)
(*            when the entry has no such text                              *)
(*   anchor : the digits of the preceding <a id="year-N">, NoYear if none  *)
(*   head   : the four-digit number in the preceding heading (for D+H the  *)
(*            text of the h3 the row stands under), NoYear if none         *)
RelativeHrefs == {"/a", "/b", "/auctions/past?page=1"}

MenziesHrefs == {"", "/a", "/b", MenziesBase \o "/a"}

MenziesEntries ==
    [href : MenziesHrefs, date : {NoYear, 2012, 2016, 2020},
     anchor : {NoYear, 2012, 2016}, head : {NoYear}]

\* the entries the listing page of a whole pipeline run is built from
PipeEntries(s) ==
    IF s = "menzies"
    THEN {[href |-> "/a", date |-> 2016, anchor |-> NoYear, head |-> NoYear],
          [href |-> "/b", date |-> 2020, anchor |-> NoYear, head |-> NoYear]}
    ELSE {[href |-> "/a", date |-> NoYear, anchor |-> NoYear, head |-> 2016],
          [href |-> "/b", date |-> NoYear, anchor |-> NoYear, head |-> 2020]}

\* re.search(r"\b(202[0-5]|201[5-9])\b", text)
YearMatch(n) == IF n \in MinYear..MaxYear THEN n ELSE NoYear

\* lines 51-73: the date field first, then the anchor id, then the headings
ResolveYear(e) ==
    IF YearMatch(e.date) # NoYear THEN YearMatch(e.date)
    ELSE IF e.anchor # NoYear THEN e.anchor
    ELSE YearMatch(e.head)

\* lines 91-93: urljoin of a site-relative href
AuctionUrl(href) == IF href \in RelativeHrefs THEN MenziesBase \o href ELSE href

AuctionRecord(url, year) == [url |-> url, year |-> year, lots |-> <<>>]

\* lines 99-102 with the filter left out
NotKnownNever(url, existing_urls) == TRUE

\* lines 99-102: "Skip if auction already processed"
NotKnown(url, existing_urls) == url \notin existing_urls

\* lines 76-78 with the year filter left out
ValidYearAlways(year) == TRUE

\* lines 76-78: "if year not in valid_years: continue"
ValidYear(year) == year \in MinYear..MaxYear

\* lines 95-97 with the url test left out
HasUrlAlways(url) == TRUE

\* lines 95-97: "if not auction_url: continue"
HasUrl(url) == url # ""

RECURSIVE CollectAuctions(_, _, _)
\* the for loop of lines 49-112 over the entries from i on
CollectAuctions(entries, i, existing_urls) ==
    IF i > Len(entries) THEN <<>>
    ELSE LET e == entries[i]
             year == ResolveYear(e)
             url == AuctionUrl(e.href)
             keep == /\ ValidYear(year)
                     /\ HasUrl(url)
                     /\ NotKnown(url, existing_urls)
         IN (IF keep THEN <<AuctionRecord(url, year)>> ELSE <<>>)
            \o CollectAuctions(entries, i + 1, existing_urls)

RECURSIVE InsertDesc(_, _, _)
\* x put behind every element of the descending sequence s whose key is >= x's
InsertDesc(s, x, key) ==
    IF s = <<>> THEN <<x>>
    ELSE IF key[Head(s)] >= key[x] THEN <<Head(s)>> \o InsertDesc(Tail(s), x, key)
    ELSE <<x>> \o s

RECURSIVE InsertBefore(_, _, _)
\* x put before the first element of s whose key is <= x's
InsertBefore(s, x, key) ==
    IF s = <<>> THEN <<x>>
    ELSE IF key[Head(s)] > key[x] THEN <<Head(s)>> \o InsertBefore(Tail(s), x, key)
    ELSE <<x>> \o s

RECURSIVE SortDescUnstable(_, _)
\* a descending sort that reverses the elements of equal key
SortDescUnstable(s, key) ==
    IF s = <<>> THEN <<>>
    ELSE InsertBefore(SortDescUnstable(SubSeq(s, 1, Len(s) - 1), key),
                      s[Len(s)], key)

RECURSIVE SortDesc(_, _)
\* list.sort(key=..., reverse=True): descending, equal keys keep their order
SortDesc(s, key) ==
    IF s = <<>> THEN <<>>
    ELSE InsertDesc(SortDesc(SubSeq(s, 1, Len(s) - 1), key), s[Len(s)], key)

YearOf(S) == [r \in S |-> r.year]

\* the markup parsed without the test of result.success
ScrapePastAuctionsAnyStatus(res, existing_urls) ==
    IF res.entries = <<>> THEN <<>>
    ELSE LET found == CollectAuctions(res.entries, 1, existing_urls)
         IN SortDesc(found, YearOf(Range(found)))

\* scrape_past_auctions of auction_scraper.py on the fetch result res
ScrapePastAuctions(res, existing_urls) ==
    IF res.status # "ok" \/ res.entries = <<>> THEN <<>>
    ELSE LET found == CollectAuctions(res.entries, 1, existing_urls)
         IN SortDesc(found, YearOf(Range(found)))

RECURSIVE DHCollectAuctions(_, _)
\* the loops of lines 23-58: stop at the first heading of 2014 or before
DHCollectAuctions(entries, i) ==
    IF i > Len(entries) THEN <<>>
    ELSE LET e == entries[i]
         IN IF e.head # NoYear /\ e.head <= DHStopYear THEN <<>>
            ELSE (IF e.href # "" /\ e.href # "/auctions/past?page=1"
                  THEN <<AuctionRecord(IF e.href \in RelativeHrefs
                                       THEN DHBase \o e.href ELSE e.href, e.head)>>
                  ELSE <<>>)
                 \o DHCollectAuctions(entries, i + 1)

\* scrape_past_auctions of deutscherandhackett_scraper.py
DHScrapePastAuctions(res) ==
    IF res.status # "ok" THEN <<>> ELSE DHCollectAuctions(res.entries, 1)

\* what crawler.arun(url) of the listing page can give
ListingResults(E) ==
    [status : {"ok"}, entries : SeqsUpTo(E, MaxEntries)]
    \cup [status : {"fail", "raise"}, entries : {<<>>}]

\* the same in a whole pipeline run: a listing of none, one or two entries;
\* a fetch that was not successful may still carry markup
PipeListingResults(s) ==
    [status : {"ok"},
     entries : {<<>>} \cup {<<e>> : e \in PipeEntries(s)}
               \cup {<<e, f>> : e \in PipeEntries(s), f \in PipeEntries(s)}]
    \cup [status : {"fail"}, entries : {<<>>} \cup {<<e>> : e \in PipeEntries(s)}]
    \cup [status : {"raise"}, entries : {<<>>}]

NoResult == [status |-> "none", entries |-> <<>>]

(* --------------------------- the lot page ----------------------------- *)

(* A Menzies lot page:                                                     *)
(*   desc   : "none" no div.pageLotDescriptionTxt, "nop" the div holds no  *)
(*            <p>, "ok" it holds the artist paragraph                      *)
(*   sold   : the text of the price span of "Sold For:", "absent" if none  *)
(*   hammer : the text of the price span of "Result Hammer:"               *)
MenziesLotPages ==
    [desc : {"none", "nop", "ok"}, sold : PriceTexts \cup {"absent"},
     hammer : PriceTexts \cup {"absent"}]

\* a D+H lot page: the text of div.field-price-sold, "absent" if none
DHLotPages == [sold : DHPriceTexts \cup {"absent"}]

LotPages(s) == IF s = "menzies" THEN MenziesLotPages ELSE DHLotPages

\* the lot URL of row r of page p of the auction at url
LotUrl(url, p, r) == [auction |-> url, page |-> p, row |-> r]

\* lines 166-206 of auction_scraper.py: Sold For first, then Result Hammer
MenziesSoldPrice(c) ==
    LET sold == IF c.sold \in PriceTexts THEN FormatSoldPrice(c.sold) ELSE NoneStr
    IN IF sold = NoneStr /\ c.desc # "none" /\ c.hammer \in PriceTexts
       THEN FormatSoldPrice(c.hammer) ELSE sold

\* lines 103-104 of deutscherandhackett_scraper.py
DHSoldPrice(c) == IF c.sold = "absent" THEN NoneStr ELSE DHSoldPriceText(c.sold)

\* the price gate left out: every lot page yields a record
HasPriceAlways(s, price) == TRUE

\* "if sold_price is None" (Menzies), "if not sold_price" (D+H)
HasPrice(s, price) ==
    IF s = "menzies" THEN price # NoneStr ELSE price \notin {NoneStr, ""}

(* scrape_lot_details after a successful fetch: the record, or <<>> for    *)
(* None.  A Menzies page whose description div holds no <p> leaves title_p *)
(* unbound; line 157 then raises and the except clause returns None.       *)
LotDetails(s, c, lot_url) ==
    LET price == IF s = "menzies" THEN MenziesSoldPrice(c) ELSE DHSoldPrice(c)
    IN IF s = "menzies" /\ c.desc = "nop" THEN <<>>
       ELSE IF HasPrice(s, price) THEN <<[url |-> lot_url, price |-> price]>>
       ELSE <<>>


(* ------------------------ the auction detail page --------------------- *)

(* A row of a detail page: link says that it carries a lot link, sold that *)
(* it shows a sold price (D+H follows only sold rows; Menzies logs it).    *)
Rows == [link : BOOLEAN, sold : BOOLEAN]

\* what crawler.arun(url) of detail page p can give
PageResults(p) ==
    [status : {"ok"}, rows : SeqsUpTo(Rows, MaxRows),
     next : IF p < MaxPage THEN BOOLEAN ELSE {FALSE}]
    \cup [status : {"fail", "raise"}, rows : {<<>>}, next : {FALSE}]

\* the detail pages served in a whole pipeline run: at most two pages of at
\* most one row, the row sold and linked
PipePageResults(p) ==
    [status : {"ok"}, rows : {<<>>, <<[link |-> TRUE, sold |-> TRUE]>>},
     next : IF p = 1 THEN BOOLEAN ELSE {FALSE}]
    \cup [status : {"fail", "raise"}, rows : {<<>>}, next : {FALSE}]

\* a lot task that scrape_lot_details has been called for, not yet run
NewTask(lot_url) == [url |-> lot_url, st |-> "sleep", res |-> <<>>, fin |-> 0]

\* lines 254-262: one task per row with a lot link, in row order
MenziesTasks(url, p, rows) ==
    LET idxs == SelectSeqIdx(rows, [i \in 1..Len(rows) |-> rows[i].link], 1)
    IN [k \in 1..Len(idxs) |-> NewTask(LotUrl(url, p, idxs[k]))]

\* lines 143-151 of deutscherandhackett_scraper.py: sold rows with a link
DHTasks(url, rows) ==
    LET idxs == SelectSeqIdx(rows,
                    [i \in 1..Len(rows) |-> rows[i].sold /\ rows[i].link], 1)
    IN [k \in 1..Len(idxs) |-> NewTask(LotUrl(url, 1, idxs[k]))]

Unresolved(ts) == {i \in 1..Len(ts) : ts[i].st # "done"}

\* the join that does not wait for its tasks
AllResolvedNoWait(ts) == TRUE

\* await asyncio.gather(*tasks) returns once every task has returned
AllResolved(ts) == Unresolved(ts) = {}

\* the results taken in the order the tasks finished
GatherByCompletion(ts) ==
    [k \in 1..Len(ts) |->
        LET i == CHOOSE j \in 1..Len(ts) :
                    Cardinality({m \in 1..Len(ts) : ts[m].fin < ts[j].fin
                                    \/ (ts[m].fin = ts[j].fin /\ m < j)}) = k - 1
        IN ts[i].res]

\* asyncio.gather: the results in the order the tasks were passed
Gather(ts) == [k \in 1..Len(ts) |-> ts[k].res]

\* the page's lots kept only when no task came back empty
ValidLotsAllOrNothing(lot_details, url) ==
    IF \E k \in 1..Len(lot_details) : lot_details[k] = <<>> THEN <<>>
    ELSE [k \in 1..Len(lot_details) |->
            [url |-> lot_details[k][1].url, price |-> lot_details[k][1].price,
             auctionUrl |-> url]]

RECURSIVE ValidLots(_, _)
\* lines 273-277: the results that are records, each stamped with auctionUrl
ValidLots(lot_details, url) ==
    IF lot_details = <<>> THEN <<>>
    ELSE (IF Head(lot_details) # <<>>
          THEN <<[url |-> Head(lot_details)[1].url,
                  price |-> Head(lot_details)[1].price, auctionUrl |-> url]>>
          ELSE <<>>)
         \o ValidLots(Tail(lot_details), url)

\* the skip rule left out
AlreadyProcessedNever(auction) == FALSE

\* "if auction["lots"]:" of scrape_auction_details
AlreadyProcessed(auction) == auction.lots # <<>>

(* ------------------------------- state -------------------------------- *)

VARIABLES
    site,           \* which program runs
    run,            \* how many times the program was started
    disk,           \* the snapshot file: [state, data]
    pc,             \* where main() stands
    recs,           \* the auction dicts of this run, existing_data first
    order,          \* auctions_data: indices into recs
    todo,           \* the list main() iterates: indices into recs
    idx,            \* position of the for loop in todo
    existing_urls,  \* existing_urls of auction_scraper.main
    result,         \* the listing fetch result being parsed
    page,           \* page of scrape_auction_details
    all_lots,       \* all_lots of scrape_auction_details
    tasks,          \* the lot tasks of the event loop, in submission order
    has_next,       \* the current detail page has a next-page link
    \* history, read by no action's guard
    calls,          \* urls passed to scrape_auction_details in this run
    fetched,        \* auction urls a detail or lot fetch was issued for, this run
    fetchOK,        \* no fetch of this run has failed or raised
    rets,           \* per auction of this run: what scrape_auction_details
                    \* returned and the lots it left in the record
    ckpts,          \* save_progress calls of the for loop, this run
    lastSave,       \* how the latest save_progress of this run ended
    lotlog,         \* how each lot task of the current page ended: [url, why]
    overtook,       \* a lot task of the current call finished before one
                    \* passed to gather ahead of it
    pagelog,        \* how each detail-page fetch of the current call ended
    persisted,      \* records written to the snapshot with lots, so far
    pending,        \* urls discovered and never passed to scrape_auction_details
    failed,         \* urls whose latest scrape_auction_details returned False
    doneBefore,     \* records that were on disk with lots when a run started
    loaded,         \* the collection this run read from the snapshot file
    listings,       \* fetches of the listing page, this run
    listingFailed,  \* the latest fetch of the listing page failed or raised
    csv             \* the rows json_to_csv wrote, each a sequence of cells

mem == <<recs, order, todo, idx, existing_urls, result, loaded>>
loc == <<page, all_lots, tasks, has_next>>
runhist == <<calls, fetched, fetchOK, rets, ckpts, lastSave, listings>>
callhist == <<lotlog, overtook, pagelog>>
vars == <<site, run, disk, pc, mem, loc, runhist, callhist,
          persisted, pending, failed, doneBefore, listingFailed, csv>>

NoFile == [state |-> "absent", data |-> <<>>]
\* a file that json.load cannot parse: truncated by open(.., "w") or half written
Corrupt == [state |-> "corrupt", data |-> <<>>]

Ident(n) == [i \in 1..n |-> i]
Urls(rs) == {rs[i].url : i \in 1..Len(rs)}

\* only the new auctions written
SnapshotNewOnly == [i \in 1..Len(todo) |-> recs[todo[i]]]

\* what json.dump(auctions_data) writes
Snapshot == [i \in 1..Len(order) |-> recs[order[i]]]

\* the auction the for loop stands at
Cur == recs[todo[idx]]

FreshMem ==
    /\ recs' = <<>> /\ order' = <<>> /\ todo' = <<>> /\ idx' = 0
    /\ existing_urls' = {} /\ result' = NoResult /\ loaded' = <<>>

FreshLoc == page' = 0 /\ all_lots' = <<>> /\ tasks' = <<>> /\ has_next' = FALSE

FreshCall == lotlog' = {} /\ overtook' = FALSE /\ pagelog' = <<>>

FreshHist ==
    /\ calls' = {} /\ fetched' = {} /\ fetchOK' = TRUE
    /\ rets' = <<>> /\ ckpts' = 0 /\ lastSave' = "none" /\ listings' = 0

Init ==
    /\ site \in Sites
    /\ run = 0
    /\ disk = NoFile
    /\ pc = "idle"
    /\ recs = <<>> /\ order = <<>> /\ todo = <<>> /\ idx = 0
    /\ existing_urls = {} /\ result = NoResult
    /\ page = 0 /\ all_lots = <<>> /\ tasks = <<>> /\ has_next = FALSE
    /\ calls = {} /\ fetched = {} /\ fetchOK = TRUE
    /\ rets = <<>> /\ ckpts = 0 /\ lastSave = "none"
    /\ lotlog = {} /\ overtook = FALSE /\ pagelog = <<>>
    /\ persisted = {} /\ pending = {} /\ failed = {} /\ doneBefore = {}
    /\ loaded = <<>> /\ listings = 0 /\ listingFailed = FALSE
    /\ csv = <<>>

(* ------------------------------ the run ------------------------------- *)

\* the program is started
StartRun ==
    /\ pc \in {"idle", "done", "aborted"}
    /\ run < MaxRuns
    /\ run' = run + 1
    /\ pc' = "load"
    /\ FreshMem /\ FreshLoc /\ FreshHist
    /\ FreshCall
    /\ doneBefore' = doneBefore \cup persisted
    /\ UNCHANGED <<site, csv, listingFailed, disk, persisted, pending, failed>>

\* the process is killed at any point of a run
Crash ==
    /\ pc \notin {"idle", "done", "aborted"}
    /\ pc' = "idle"
    /\ FreshMem /\ FreshLoc /\ FreshHist /\ FreshCall
    /\ UNCHANGED <<site, csv, listingFailed, run, persisted, disk, pending, failed, doneBefore>>

\* auction_scraper: load_existing_data and existing_urls (lines 311-312)
Load ==
    /\ site = "menzies" /\ pc = "load"
    /\ LET data == IF disk.state = "ok" THEN disk.data ELSE <<>>
       IN /\ recs' = data
          /\ order' = Ident(Len(data))
          /\ existing_urls' = Urls(data)
          /\ loaded' = data
    /\ pc' = "fetch_listing"
    /\ UNCHANGED <<site, csv, listingFailed, run, callhist, persisted, disk, todo, idx, result, loc, runhist,
                   pending, failed, doneBefore>>

\* deutscherandhackett_scraper: lines 177-180, the snapshot exists
DHLoad ==
    /\ site = "dh" /\ pc = "load" /\ disk.state = "ok"
    /\ recs' = disk.data
    /\ loaded' = disk.data
    /\ order' = Ident(Len(disk.data))
    /\ todo' = Ident(Len(disk.data))
    /\ idx' = 1
    /\ pc' = "loop"
    /\ UNCHANGED <<site, csv, listingFailed, run, callhist, persisted, disk, existing_urls, result, loc, runhist,
                   pending, failed, doneBefore>>

\* lines 178-179 on a file json.load cannot parse: the exception leaves main
DHLoadRaises ==
    /\ site = "dh" /\ pc = "load" /\ disk.state = "corrupt"
    /\ pc' = "aborted"
    /\ UNCHANGED <<site, csv, listingFailed, run, callhist, persisted, disk, mem, loc, runhist, pending, failed, doneBefore>>

\* lines 181-182: no snapshot, discover
DHNoFile ==
    /\ site = "dh" /\ pc = "load" /\ disk.state = "absent"
    /\ pc' = "fetch_listing"
    /\ UNCHANGED <<site, csv, listingFailed, run, callhist, persisted, disk, mem, loc, runhist, pending, failed, doneBefore>>

\* result = await crawler.arun(url=url) of scrape_past_auctions
FetchListing ==
    /\ pc = "fetch_listing"
    /\ \E res \in PipeListingResults(site) :
          /\ result' = res
          /\ fetchOK' = (fetchOK /\ res.status = "ok")
          /\ listingFailed' = (res.status # "ok")
    /\ listings' = listings + 1
    /\ pc' = "parse_listing"
    /\ UNCHANGED <<site, csv, loaded, run, callhist, persisted, disk, recs, order, todo, idx, existing_urls, loc,
                   calls, fetched, rets, ckpts, lastSave,
                   pending, failed, doneBefore>>

AuctionsDataNewOnly(existing_data, new_auctions) == new_auctions

\* auction_scraper main line 320: auctions_data = existing_data + new_auctions
AuctionsData(existing_data, new_auctions) == existing_data \o new_auctions

\* auction_scraper: the rest of scrape_past_auctions, then main lines 320-321
ParseListing ==
    /\ site = "menzies" /\ pc = "parse_listing"
    /\ LET new_auctions == ScrapePastAuctions(result, existing_urls)
           all == AuctionsData(recs, new_auctions)
       IN /\ recs' = all
          /\ todo' = [i \in 1..Len(new_auctions) |-> Len(all) - Len(new_auctions) + i]
          /\ order' = SortDesc(Ident(Len(all)),
                               [i \in 1..Len(all) |-> all[i].year])
          /\ pending' = pending \cup Urls(new_auctions)
    /\ idx' = 1
    /\ pc' = "loop"
    /\ UNCHANGED <<site, csv, listingFailed, loaded, run, callhist, persisted, disk, existing_urls, result, loc, runhist,
                   failed, doneBefore>>

\* deutscherandhackett_scraper: scrape_past_auctions, then line 184 saves
DHParseListing ==
    /\ site = "dh" /\ pc = "parse_listing"
    /\ LET auctions_data == DHScrapePastAuctions(result)
       IN /\ recs' = auctions_data
          /\ order' = Ident(Len(auctions_data))
          /\ todo' = Ident(Len(auctions_data))
          /\ pending' = pending \cup Urls(auctions_data)
    /\ idx' = 0
    /\ result' = NoResult
    /\ pc' = "save"
    /\ UNCHANGED <<site, csv, listingFailed, loaded, run, callhist, persisted, disk, existing_urls, loc, runhist, failed, doneBefore>>

\* the for loop of main is exhausted
LoopDone ==
    /\ pc = "loop" /\ idx > Len(todo)
    /\ pc' = "done"
    /\ result' = NoResult
    /\ UNCHANGED <<site, csv, listingFailed, loaded, run, callhist, persisted, disk, recs, order, todo, idx, existing_urls, loc,
                   runhist, pending, failed, doneBefore>>

(* ------------------------ scrape_auction_details ---------------------- *)

\* the lots collected so far are assigned even when the call fails
ReturnedWithPartialLots(ok, newrecs) ==
    LET kept == IF ok THEN newrecs ELSE [recs EXCEPT ![todo[idx]].lots = all_lots]
    IN /\ recs' = kept
       /\ rets' = Append(rets, [ok |-> ok, lots |-> kept[todo[idx]].lots])
       /\ failed' = IF ok THEN failed \ {Cur.url} ELSE failed \cup {Cur.url}
       /\ pc' = "save"
       /\ FreshLoc

\* the function returns ok with the collection now newrecs
Returned(ok, newrecs) ==
    /\ recs' = newrecs
    /\ rets' = Append(rets, [ok |-> ok, lots |-> newrecs[todo[idx]].lots])
    /\ failed' = IF ok THEN failed \ {Cur.url} ELSE failed \cup {Cur.url}
    /\ pc' = "save"
    /\ FreshLoc

\* auction["lots"] = lots
WithLots(lots) == [recs EXCEPT ![todo[idx]].lots = lots]

\* main passes the next auction; its lots are there already: return True
DetailSkip ==
    /\ pc = "loop" /\ idx <= Len(todo)
    /\ AlreadyProcessed(Cur)
    /\ calls' = calls \cup {Cur.url}
    /\ pending' = pending \ {Cur.url}
    /\ result' = NoResult
    /\ Returned(TRUE, recs)
    /\ FreshCall
    /\ UNCHANGED <<site, csv, listingFailed, loaded, listings, run, persisted, disk, order, todo, idx, existing_urls,
                   fetched, fetchOK, ckpts, lastSave, doneBefore>>

\* main passes the next auction; the page loop starts
DetailBegin ==
    /\ pc = "loop" /\ idx <= Len(todo)
    /\ ~AlreadyProcessed(Cur)
    /\ calls' = calls \cup {Cur.url}
    /\ pending' = pending \ {Cur.url}
    /\ result' = NoResult
    /\ page' = 1 /\ all_lots' = <<>>
    /\ pc' = "page"
    /\ FreshCall
    /\ UNCHANGED <<site, csv, listingFailed, loaded, listings, run, persisted, disk, recs, order, todo, idx, existing_urls,
                   tasks, has_next, fetched, fetchOK, rets, ckpts, lastSave,
                   failed, doneBefore>>

NoLotRowsNever(r) == FALSE

\* auction_scraper lines 245-249: the page shows no lot row
NoLotRows(r) == r.rows = <<>>

\* what the log of page fetches keeps of a fetch: its status, or "empty" for
\* a page that was fetched and shows no lot row
PageOutcome(r) == IF r.status = "ok" /\ r.rows = <<>> THEN "empty" ELSE r.status

\* auction_scraper lines 239-270: fetch one detail page, start its lot tasks
FetchPage(r) ==
    /\ site = "menzies" /\ pc = "page"
    /\ fetched' = fetched \cup {Cur.url}
    /\ fetchOK' = (fetchOK /\ r.status = "ok")
    /\ pagelog' = Append(pagelog, PageOutcome(r))
    /\ IF r.status = "raise"
       THEN Returned(FALSE, recs)
       ELSE IF r.status = "fail" \/ NoLotRows(r)
       THEN Returned(TRUE, WithLots(all_lots))
       ELSE /\ tasks' = tasks \o MenziesTasks(Cur.url, page, r.rows)
            /\ has_next' = r.next
            /\ pc' = "gather"
            /\ UNCHANGED <<recs, rets, failed, page, all_lots>>
    /\ UNCHANGED <<site, csv, listingFailed, loaded, listings, run, lotlog, overtook, persisted, disk, order, todo, idx,
                   existing_urls, result, calls, ckpts, lastSave, pending, doneBefore>>

\* deutscherandhackett_scraper lines 132-152: the one detail page
DHFetchPage(r) ==
    /\ site = "dh" /\ pc = "page"
    /\ fetched' = fetched \cup {Cur.url}
    /\ fetchOK' = (fetchOK /\ r.status = "ok")
    /\ pagelog' = Append(pagelog, r.status)
    /\ IF r.status # "ok"
       THEN Returned(FALSE, recs)
       ELSE /\ tasks' = tasks \o DHTasks(Cur.url, r.rows)
            /\ has_next' = FALSE
            /\ pc' = "gather"
            /\ UNCHANGED <<recs, rets, failed, page, all_lots>>
    /\ UNCHANGED <<site, csv, listingFailed, loaded, listings, run, lotlog, overtook, persisted, disk, order, todo, idx,
                   existing_urls, result, calls, ckpts, lastSave, pending, doneBefore>>

\* task i finishes while a task passed to gather before it has not
Overtakes(i) == \E j \in 1..(i - 1) : tasks[j].st # "done"

Finished(ts) == Cardinality({i \in 1..Len(ts) : ts[i].st = "done"})

\* scrape_lot_details: asyncio.sleep(1) is over, crawler.arun is called
TaskWake(i) ==
    /\ i \in 1..Len(tasks) /\ tasks[i].st = "sleep"
    /\ tasks' = [tasks EXCEPT ![i].st = "fetch"]
    /\ fetched' = fetched \cup {tasks[i].url.auction}
    /\ UNCHANGED <<site, csv, listingFailed, listings, run, callhist, persisted, disk, pc, mem, page, all_lots, has_next,
                   calls, fetchOK, rets, ckpts, lastSave,
                   pending, failed, doneBefore>>

\* scrape_lot_details: the fetch raised or was not successful: return None
TaskFail(i) ==
    /\ i \in 1..Len(tasks) /\ tasks[i].st = "fetch"
    /\ tasks' = [tasks EXCEPT ![i].st = "done", ![i].res = <<>>,
                              ![i].fin = Finished(tasks) + 1]
    /\ fetchOK' = FALSE
    /\ lotlog' = lotlog \cup {[url |-> tasks[i].url, why |-> "fetch"]}
    /\ overtook' = (overtook \/ Overtakes(i))
    /\ UNCHANGED pagelog
    /\ UNCHANGED <<site, csv, listingFailed, listings, run, persisted, disk, pc, mem, page, all_lots, has_next,
                   calls, fetched, rets, ckpts, lastSave,
                   pending, failed, doneBefore>>

\* scrape_lot_details: the lot page arrived and is parsed
TaskDone(i) ==
    /\ i \in 1..Len(tasks) /\ tasks[i].st = "fetch"
    /\ \E c \in LotPages(site) :
          LET res == LotDetails(site, c, tasks[i].url)
              why == IF res # <<>> THEN "ok"
                     ELSE IF site = "menzies" /\ c.desc = "nop" THEN "error"
                     ELSE "noprice"
          IN /\ tasks' = [tasks EXCEPT ![i].st = "done", ![i].res = res,
                                       ![i].fin = Finished(tasks) + 1]
             /\ lotlog' = lotlog \cup {[url |-> tasks[i].url, why |-> why]}
    /\ overtook' = (overtook \/ Overtakes(i))
    /\ UNCHANGED pagelog
    /\ UNCHANGED <<site, csv, listingFailed, run, persisted, disk, pc, mem, page, all_lots, has_next,
                   runhist, pending, failed, doneBefore>>

\* the tasks still running after the join (none, when the join waits)
StillRunning(ts) == SelectSeq(ts, LAMBDA t : t.st # "done")

\* auction_scraper lines 272-287: join, merge, go to the next page
GatherNext ==
    /\ site = "menzies" /\ pc = "gather"
    /\ AllResolved(tasks)
    /\ has_next
    /\ all_lots' = all_lots \o ValidLots(Gather(tasks), Cur.url)
    /\ page' = page + 1
    /\ tasks' = StillRunning(tasks)
    /\ has_next' = FALSE
    /\ pc' = "page"
    /\ lotlog' = {}
    /\ UNCHANGED <<site, csv, listingFailed, run, overtook, pagelog, persisted, disk, mem, runhist,
                   pending, failed, doneBefore>>

\* auction_scraper lines 272-291: join, merge, no next page: assign, return
GatherLast ==
    /\ site = "menzies" /\ pc = "gather"
    /\ AllResolved(tasks)
    /\ ~has_next
    /\ Returned(TRUE, WithLots(all_lots \o ValidLots(Gather(tasks), Cur.url)))
    /\ UNCHANGED <<site, csv, listingFailed, loaded, listings, run, callhist, persisted, disk, order, todo, idx, existing_urls, result,
                   calls, fetched, fetchOK, ckpts, lastSave,
                   pending, doneBefore>>

\* deutscherandhackett_scraper lines 154-160
DHGather ==
    /\ site = "dh" /\ pc = "gather"
    /\ AllResolved(tasks)
    /\ Returned(TRUE, WithLots(ValidLots(Gather(tasks), Cur.url)))
    /\ UNCHANGED <<site, csv, listingFailed, loaded, listings, run, callhist, persisted, disk, order, todo, idx, existing_urls, result,
                   calls, fetched, fetchOK, ckpts, lastSave,
                   pending, doneBefore>>

(* ---------------------------- save_progress --------------------------- *)

\* a failed save_progress: auction_scraper logs and goes on, D+H's raises
AfterFailedSave ==
    /\ lastSave' = "failed"
    /\ IF site = "menzies"
       THEN pc' = "loop" /\ idx' = idx + 1
       ELSE pc' = "aborted" /\ idx' = idx

Checkpoint == ckpts' = IF idx >= 1 THEN ckpts + 1 ELSE ckpts

\* open(filename, "w") truncates the file
SaveOpen ==
    /\ pc = "save"
    /\ Checkpoint
    /\ disk' = Corrupt
    /\ pc' = "saving"
    /\ FreshCall
    /\ UNCHANGED <<site, csv, listingFailed, listings, run, persisted, mem, loc, calls, fetched, fetchOK, rets, lastSave,
                   pending, failed, doneBefore>>

\* open(filename, "w") raises: the file is as it was
SaveOpenFails ==
    /\ pc = "save"
    /\ Checkpoint
    /\ AfterFailedSave
    /\ FreshCall
    /\ UNCHANGED <<site, csv, listingFailed, loaded, listings, run, persisted, disk, recs, order, todo, existing_urls,
                   result, loc, calls, fetched, fetchOK, rets,
                   pending, failed, doneBefore>>

\* json.dump writes the whole collection and the file is closed
SaveDump ==
    /\ pc = "saving"
    /\ disk' = [state |-> "ok", data |-> Snapshot]
    /\ lastSave' = "ok"
    /\ persisted' = persisted \cup {r \in Range(Snapshot) : r.lots # <<>>}
    /\ idx' = idx + 1
    /\ pc' = "loop"
    /\ UNCHANGED <<site, csv, listingFailed, loaded, listings, run, callhist, recs, order, todo, existing_urls, result, loc,
                   calls, fetched, fetchOK, rets, ckpts,
                   pending, failed, doneBefore>>

\* json.dump raises part way: the file stays half written
SaveDumpFails ==
    /\ pc = "saving"
    /\ AfterFailedSave
    /\ UNCHANGED <<site, csv, listingFailed, loaded, listings, run, callhist, persisted, disk, recs, order, todo, existing_urls, result, loc,
                   calls, fetched, fetchOK, rets, ckpts,
                   pending, failed, doneBefore>>

(* --------------------------- specifications --------------------------- *)

Next ==
    \/ StartRun \/ Crash
    \/ Load \/ DHLoad \/ DHLoadRaises \/ DHNoFile
    \/ FetchListing \/ ParseListing \/ DHParseListing
    \/ LoopDone \/ DetailSkip \/ DetailBegin
    \/ \E r \in PipePageResults(page) : FetchPage(r)
    \/ \E r \in PipePageResults(page) : DHFetchPage(r)
    \/ \E i \in 1..Len(tasks) : TaskWake(i)
    \/ \E i \in 1..Len(tasks) : TaskFail(i)
    \/ \E i \in 1..Len(tasks) : TaskDone(i)
    \/ GatherNext \/ GatherLast \/ DHGather
    \/ SaveOpen \/ SaveOpenFails \/ SaveDump \/ SaveDumpFails

\* the pipeline: up to MaxRuns runs of main(), each possibly killed
Spec == Init /\ [][Next]_vars

(* scrape_auction_details called once, on a record with or without lots,  *)
(* against detail pages of up to MaxPage pages of up to MaxRows rows.      *)
HarnessUrl == MenziesBase \o "/a"

HarnessLot ==
    [url |-> LotUrl(HarnessUrl, 1, 1), price |-> "$1,200",
     auctionUrl |-> HarnessUrl]

InitDetail ==
    /\ site \in Sites
    /\ run = 1
    /\ disk = NoFile
    /\ pc = "loop"
    /\ \E lots \in {<<>>, <<HarnessLot>>} :
          recs = <<[url |-> HarnessUrl, year |-> 2016, lots |-> lots]>>
    /\ order = <<1>> /\ todo = <<1>> /\ idx = 1
    /\ existing_urls = {} /\ result = NoResult
    /\ page = 0 /\ all_lots = <<>> /\ tasks = <<>> /\ has_next = FALSE
    /\ calls = {} /\ fetched = {} /\ fetchOK = TRUE
    /\ rets = <<>> /\ ckpts = 0 /\ lastSave = "none"
    /\ lotlog = {} /\ overtook = FALSE /\ pagelog = <<>>
    /\ persisted = {} /\ pending = {} /\ failed = {} /\ doneBefore = {}
    /\ loaded = <<>> /\ listings = 0 /\ listingFailed = FALSE
    /\ csv = <<>>

NextDetail ==
    \/ DetailSkip \/ DetailBegin
    \/ \E r \in PageResults(page) : FetchPage(r)
    \/ \E r \in PageResults(MaxPage) : DHFetchPage(r)
    \/ \E i \in 1..Len(tasks) : TaskWake(i)
    \/ \E i \in 1..Len(tasks) : TaskFail(i)
    \/ \E i \in 1..Len(tasks) : TaskDone(i)
    \/ GatherNext \/ GatherLast \/ DHGather

SpecDetail == InitDetail /\ [][NextDetail]_vars

(* scrape_past_auctions of auction_scraper.py applied once to a listing    *)
(* fetch result and a set of known urls.                                   *)
InitDiscover ==
    /\ site = "menzies"
    /\ run = 1
    /\ disk = NoFile
    /\ pc = "parse_listing"
    /\ recs = <<>> /\ order = <<>> /\ todo = <<>> /\ idx = 0
    /\ existing_urls \in SUBSET {MenziesBase \o "/a", MenziesBase \o "/b"}
    /\ result \in ListingResults(MenziesEntries)
    /\ page = 0 /\ all_lots = <<>> /\ tasks = <<>> /\ has_next = FALSE
    /\ calls = {} /\ fetched = {} /\ fetchOK = TRUE
    /\ rets = <<>> /\ ckpts = 0 /\ lastSave = "none"
    /\ lotlog = {} /\ overtook = FALSE /\ pagelog = <<>>
    /\ persisted = {} /\ pending = {} /\ failed = {} /\ doneBefore = {}
    /\ loaded = <<>> /\ listings = 0 /\ listingFailed = FALSE
    /\ csv = <<>>

NextDiscover == ParseListing

SpecDiscover == InitDiscover /\ [][NextDiscover]_vars

(* ----------------------------- json_to_csv ---------------------------- *)

\* auction_fields, lot_fields and headers of json_to_csv
AuctionFields == <<"url", "title", "year", "location", "date", "sale_number">>

LotFields ==
    <<"artist", "title", "medium", "size", "signage", "provenance",
      "condition", "price", "url", "auctionUrl">>

Headers == AuctionFields \o LotFields

\* d.get(field, "")
Get(d, field) == IF field \in DOMAIN d THEN d[field] ELSE ""

\* {field: auction.get(field, "") for field in auction_fields}
AuctionBase(auction) == [f \in Range(AuctionFields) |-> Get(auction, f)]

\* {field: lot.get(field, "") for field in lot_fields}
LotData(lot) == [f \in Range(LotFields) |-> Get(lot, f)]

\* {**a, **b}: the keys of both, b's value where both have the key
Merge(a, b) ==
    [f \in DOMAIN a \cup DOMAIN b |-> IF f \in DOMAIN b THEN b[f] ELSE a[f]]

\* writer.writerow(row): one cell per header, row[header]
CsvRow(auction, lot) ==
    LET row == Merge(AuctionBase(auction), LotData(lot))
    IN [k \in 1..Len(Headers) |-> row[Headers[k]]]

\* auction.get("lots", [])
LotsOf(auction) == IF "lots" \in DOMAIN auction THEN auction.lots ELSE <<>>

RECURSIVE CsvRows(_, _)
\* the loops of lines 34-41 over the auctions from i on
CsvRows(auctions_data, i) ==
    IF i > Len(auctions_data) THEN <<>>
    ELSE [j \in 1..Len(LotsOf(auctions_data[i])) |->
             CsvRow(auctions_data[i], LotsOf(auctions_data[i])[j])]
         \o CsvRows(auctions_data, i + 1)

\* the lot dicts of the snapshots json_to_csv is applied to
CsvLots ==
    [url : {"/lot/1", "/lot/2"}, title : {"Work"}, artist : {"Artist"},
     price : {"$1,200"}, auctionUrl : {"/a"}]

\* the auction dicts: with the fields of either scraper, up to MaxRows lots
CsvAuctions ==
    [url : {"/a"}, title : {"Sale"}, year : {"2016"},
     lots : SeqsUpTo(CsvLots, MaxRows)]
    \cup [url : {"/b"}, title : {"Sale"}, year : {"2020"}, date : {"1 May 2020"},
          location : {"Sydney"}, sale_number : {"38"},
          lots : SeqsUpTo(CsvLots, MaxRows)]

\* json_to_csv(): the snapshot is read and one row per lot is written; no
\* rows when the file is missing or cannot be parsed
JsonToCsv ==
    /\ pc = "csv"
    /\ csv' = IF disk.state = "ok" THEN CsvRows(disk.data, 1) ELSE <<>>
    /\ pc' = "done"
    /\ UNCHANGED <<site, run, disk, mem, loc, runhist, callhist,
                   persisted, pending, failed, doneBefore, listingFailed>>

(* json_to_csv applied once to a snapshot of up to MaxEntries auctions.    *)
InitCsv ==
    /\ site = "dh"
    /\ run = 0
    /\ disk \in {NoFile, Corrupt}
          \cup {[state |-> "ok", data |-> d] :
                   d \in SeqsUpTo(CsvAuctions, MaxEntries)}
    /\ pc = "csv"
    /\ recs = <<>> /\ order = <<>> /\ todo = <<>> /\ idx = 0
    /\ existing_urls = {} /\ result = NoResult
    /\ page = 0 /\ all_lots = <<>> /\ tasks = <<>> /\ has_next = FALSE
    /\ calls = {} /\ fetched = {} /\ fetchOK = TRUE
    /\ rets = <<>> /\ ckpts = 0 /\ lastSave = "none"
    /\ lotlog = {} /\ overtook = FALSE /\ pagelog = <<>>
    /\ persisted = {} /\ pending = {} /\ failed = {} /\ doneBefore = {}
    /\ loaded = <<>> /\ listings = 0 /\ listingFailed = FALSE
    /\ csv = <<>>

NextCsv == JsonToCsv

SpecCsv == InitCsv /\ [][NextCsv]_vars

(* ------------------------------ claims -------------------------------- *)

NewAuctions == [i \in 1..Len(todo) |-> recs[todo[i]]]

\* C1: scrape_past_auctions returns no record whose url is in the known set,
\* and applied again to the same listing with the known set extended by the
\* urls it returned, it returns the empty list.
C1_IdempotentDiscovery ==
    (pc = "loop" /\ result.status # "none") =>
        /\ \A i \in 1..Len(NewAuctions) : NewAuctions[i].url \notin existing_urls
        /\ ScrapePastAuctions(result, existing_urls \cup Urls(NewAuctions)) = <<>>

\* a listing with a known and a new valid auction has been scraped
C1_Witness ==
    /\ pc = "loop" /\ result.status = "ok"
    /\ Len(NewAuctions) = 1
    /\ \E i \in 1..Len(result.entries) :
          /\ AuctionUrl(result.entries[i].href) \in existing_urls
          /\ ResolveYear(result.entries[i]) \in MinYear..MaxYear

\* C2: scrape_auction_details on an auction whose lots are non-empty returns
\* True in one step: no detail-page fetch, no lot task, the records unchanged.
C2_SkipWithoutFetch ==
    [][(pc = "loop" /\ idx <= Len(todo) /\ Cur.lots # <<>>) =>
          /\ pc' = "save"
          /\ rets' = Append(rets, [ok |-> TRUE, lots |-> Cur.lots])
          /\ recs' = recs
          /\ fetched' = fetched
          /\ tasks' = <<>>]_vars

\* the call on a record with lots has returned True and nothing was fetched
C2_Witness ==
    /\ site = "menzies" /\ pc = "save"
    /\ Cur.lots = <<HarnessLot>>
    /\ rets = <<[ok |-> TRUE, lots |-> <<HarnessLot>>]>>
    /\ fetched = {}

\* C3: every auction of the for loop is followed by a save_progress call
\* before the next one starts, and a save that wrote the file after the N-th
\* auction wrote every record of the collection, the N processed ones with
\* the lots their Detail Stage left (none where it failed).
C3_CheckpointAfterEach ==
    /\ pc \in {"page", "gather"} => (ckpts = idx - 1 /\ Len(rets) = idx - 1)
    /\ (pc = "save" /\ idx >= 1) => (ckpts = idx - 1 /\ Len(rets) = idx)
    /\ (pc = "saving" /\ idx >= 1) => (ckpts = idx /\ Len(rets) = idx)
    /\ pc \in {"loop", "done"} => (ckpts = idx - 1 /\ Len(rets) = idx - 1)
    /\ (pc \in {"loop", "done"} /\ lastSave = "ok" /\ ckpts >= 1) =>
          /\ disk.state = "ok"
          /\ Len(disk.data) = Len(recs)
          /\ \A i \in 1..Len(recs) :
                \E k \in 1..Len(disk.data) : disk.data[k] = recs[i]
          /\ \A j \in 1..(idx - 1) :
                \E k \in 1..Len(disk.data) :
                   /\ disk.data[k].url = recs[todo[j]].url
                   /\ disk.data[k].lots = rets[j].lots
                   /\ (~rets[j].ok => disk.data[k].lots = <<>>)

\* two auctions processed, the first failed, the second got lots, both saved
C3_Witness ==
    /\ site = "menzies" /\ pc = "loop" /\ idx = 3 /\ lastSave = "ok"
    /\ ~rets[1].ok /\ rets[2].ok /\ rets[2].lots # <<>>
    /\ disk.state = "ok" /\ Len(disk.data) >= 2

\* C4: (auction_scraper) an auction loaded from the snapshot with empty lots
\* whose Detail Stage had failed is passed to scrape_auction_details in the
\* run that loaded it.
C4_FailedIsRetried ==
    (site = "menzies" /\ pc = "done") =>
        \A i \in 1..Len(recs) :
            (recs[i].url \in existing_urls /\ recs[i].url \in failed
                /\ recs[i].lots = <<>>) => recs[i].url \in calls

\* C5: (auction_scraper) a run that completes with every fetch successful has
\* passed to scrape_auction_details every auction of the loaded snapshot that
\* was discovered by a killed run and never processed.
C5_ResumeCoversUnprocessed ==
    (site = "menzies" /\ pc = "done" /\ fetchOK) =>
        \A u \in existing_urls : u \notin pending

\* C6: an auction that was in the snapshot with lots before this run started
\* is not fetched in this run, and every readable snapshot still holds it
\* with the same lots.
C6_CompleteNeverRefetched ==
    \A r \in doneBefore :
        /\ r.url \notin fetched
        /\ disk.state = "ok" => r \in Range(disk.data)

Priced(lot) == lot.price \notin {NoneStr, ""}

AllPriced(lots) == \A i \in 1..Len(lots) : Priced(lots[i])

\* C7: no lot held by a record in memory, by the snapshot, by all_lots or by
\* a finished lot task has a missing (None or empty) price.
C7_PriceGating ==
    /\ \A i \in 1..Len(recs) : AllPriced(recs[i].lots)
    /\ \A i \in 1..Len(disk.data) : AllPriced(disk.data[i].lots)
    /\ AllPriced(all_lots)
    /\ \A i \in 1..Len(tasks) : tasks[i].res # <<>> => Priced(tasks[i].res[1])

\* a lot page without a price was dropped while another lot was recorded
C7_Witness ==
    /\ pc = "save"
    /\ \E e \in lotlog : e.why = "noprice"
    /\ Cur.lots # <<>>

LotBefore(a, b) ==
    \/ a.url.page < b.url.page
    \/ a.url.page = b.url.page /\ a.url.row < b.url.row

InPageOrder(lots) ==
    \A i, j \in 1..Len(lots) : i < j => LotBefore(lots[i], lots[j])

\* C8: whatever the order in which the lot tasks finish, all_lots and the
\* lots of every record list the lots by page, and within a page by row.
C8_OrderPreserved ==
    /\ InPageOrder(all_lots)
    /\ \A i \in 1..Len(recs) : InPageOrder(recs[i].lots)

StampedLot(p, r) ==
    [url |-> LotUrl(HarnessUrl, p, r), price |-> "$1,200",
     auctionUrl |-> HarnessUrl]

\* page 1 gave [A, B] with B finished before A, page 2 gave [C] alone
C8_Witness ==
    /\ pc = "save"
    /\ overtook
    /\ lotlog = {[url |-> LotUrl(HarnessUrl, 2, 1), why |-> "ok"]}
    /\ Cur.lots = <<StampedLot(1, 1), StampedLot(1, 2), StampedLot(2, 1)>>

\* the tasks of the page that the log says ended with a record, in task order
Survivors ==
    LET ok == SelectSeq(tasks,
                  LAMBDA t : [url |-> t.url, why |-> "ok"] \in lotlog)
    IN [k \in 1..Len(ok) |->
          [url |-> ok[k].url, price |-> ok[k].res[1].price,
           auctionUrl |-> Cur.url]]

\* C9: the join of a page is taken when every task has returned; whichever
\* tasks failed, exactly the lots of the others are kept, in task order, the
\* next page is fetched if there is one, and otherwise the call returns True.
C9_PartialFailureIsolation ==
    [][(pc = "gather" /\ pc' # "gather") =>
          /\ \A i \in 1..Len(tasks) : tasks[i].st = "done"
          /\ IF site = "menzies" /\ has_next
             THEN /\ pc' = "page" /\ page' = page + 1
                  /\ all_lots' = all_lots \o Survivors
             ELSE /\ pc' = "save"
                  /\ rets' = Append(rets, [ok |-> TRUE,
                                           lots |-> all_lots \o Survivors])
                  /\ recs'[todo[idx]].lots = all_lots \o Survivors]_vars

\* a task failed, a task passed after it gave a lot, the call returned True
C9_Witness ==
    /\ pc = "save"
    /\ \E e, f \in lotlog :
          /\ e.why \in {"fetch", "error"} /\ f.why = "ok"
          /\ e.url.page = f.url.page /\ e.url.row < f.url.row
    /\ rets[Len(rets)].ok
    /\ Cur.lots # <<>>

\* C10: a detail page is fetched only when no lot task is unresolved; the
\* unresolved lot tasks all belong to the current page of the current
\* auction; an auction is in its Detail Stage only when every auction before
\* it has returned and had its save_progress call.
C10_JoinBarrier ==
    /\ pc # "gather" => \A i \in 1..Len(tasks) : tasks[i].st = "done"
    /\ \A i \in 1..Len(tasks) :
          tasks[i].st # "done" =>
             /\ tasks[i].url.auction = Cur.url
             /\ tasks[i].url.page = page
    /\ pc \in {"page", "gather"} => (Len(rets) = idx - 1 /\ ckpts = idx - 1)

\* the lot fetch of page 2 of the second auction is in flight
C10_Witness ==
    /\ pc = "gather" /\ page = 2 /\ idx = 2 /\ ckpts = 1
    /\ tasks[1].st = "fetch"
    /\ all_lots # <<>>

\* the logged page fetch did not succeed: it came back not successful or raised
FetchFailed(o) == o \in {"fail", "raise"}

\* C11: a call of scrape_auction_details whose fetch of the first detail page
\* failed (raised, or came back not successful) returns False, and a call
\* whose page fetches all succeeded returns True.
C11_FirstPageFailureIsFalse ==
    (pc = "save" /\ pagelog # <<>>) =>
        /\ FetchFailed(pagelog[1]) => ~rets[Len(rets)].ok
        /\ (\A k \in 1..Len(pagelog) : ~FetchFailed(pagelog[k])) => rets[Len(rets)].ok

\* C12: after scrape_auction_details returns, the lots of the auction are
\* empty unless every page up to the last one was fetched: a call whose
\* latest page fetch failed leaves no lots.
C12_FullOrEmpty ==
    (pc = "save" /\ pagelog # <<>> /\ FetchFailed(pagelog[Len(pagelog)])) =>
        Cur.lots = <<>>

\* the candidates of the listing in discovery order
Discovered == CollectAuctions(result.entries, 1, existing_urls)

\* C13: the records scrape_past_auctions returns are in descending order of
\* year, those of one year in the order of the listing, and the for loop of
\* main starts at the first of them, the newest.
C13_NewestFirstStable ==
    (pc = "loop" /\ result.status # "none") =>
        /\ \A i, j \in 1..Len(NewAuctions) :
              i < j => NewAuctions[i].year >= NewAuctions[j].year
        /\ \A y \in {r.year : r \in Range(NewAuctions) \cup Range(Discovered)} :
              SelectSeq(NewAuctions, LAMBDA r : r.year = y)
                 = SelectSeq(Discovered, LAMBDA r : r.year = y)
        /\ idx = 1
        /\ \A i \in 1..Len(NewAuctions) : Cur.year >= NewAuctions[i].year

\* the listing gave an older auction first; the newer one is processed first
C13_Witness ==
    /\ pc = "loop" /\ result.status = "ok"
    /\ Len(result.entries) = 2 /\ Len(NewAuctions) = 2
    /\ Discovered[1].year < Discovered[2].year
    /\ NewAuctions = <<Discovered[2], Discovered[1]>>
    /\ Cur = Discovered[2]

\* the entries of the listing whose year resolves into 2015..2025
Resolvable ==
    {i \in 1..Len(result.entries) :
        ResolveYear(result.entries[i]) \in MinYear..MaxYear}

\* C14: every record scrape_past_auctions returns has a year in 2015..2025,
\* the year its entry resolves to; entries whose year does not resolve, or
\* resolves outside the range, give no record.
C14_YearInRange ==
    (pc = "loop" /\ result.status # "none") =>
        /\ \A i \in 1..Len(NewAuctions) :
              /\ NewAuctions[i].year \in MinYear..MaxYear
              /\ \E k \in Resolvable :
                    /\ AuctionUrl(result.entries[k].href) = NewAuctions[i].url
                    /\ ResolveYear(result.entries[k]) = NewAuctions[i].year
        /\ Len(NewAuctions) <= Cardinality(Resolvable)

\* auctions dated 2016 and 2012 were listed: exactly the 2016 one is returned
C14_Witness ==
    /\ pc = "loop" /\ existing_urls = {}
    /\ result.entries =
          <<[href |-> "/a", date |-> 2016, anchor |-> NoYear, head |-> NoYear],
            [href |-> "/b", date |-> 2012, anchor |-> 2012, head |-> NoYear]>>
    /\ NewAuctions = <<[url |-> MenziesBase \o "/a", year |-> 2016, lots |-> <<>>]>>

\* C15: every record scrape_past_auctions returns has a non-empty url and no
\* lots; an entry without an auction link gives no record.
C15_WellFormedRecords ==
    (pc = "loop" /\ result.status # "none") =>
        /\ \A i \in 1..Len(NewAuctions) :
              NewAuctions[i].url # "" /\ NewAuctions[i].lots = <<>>
        /\ Len(NewAuctions)
              <= Cardinality({k \in 1..Len(result.entries) :
                                 result.entries[k].href # ""})

\* an entry of a valid year without a link was dropped, its neighbour kept
C15_Witness ==
    /\ pc = "loop" /\ result.status = "ok"
    /\ Len(result.entries) = 2 /\ Len(NewAuctions) = 1
    /\ result.entries[1].href = ""
    /\ ResolveYear(result.entries[1]) \in MinYear..MaxYear

\* C16: a run that finds no snapshot, or one that cannot be parsed, goes on
\* as a fresh start: it is never aborted before it has tried to save.
C16_LoadNeverFails ==
    (run >= 1 /\ disk.state # "ok" /\ lastSave = "none") => pc # "aborted"

\* C17: a save_progress call that fails does not abort the run.
C17_SaveFailureDoesNotAbort ==
    lastSave = "failed" => pc # "aborted"

\* C18: (auction_scraper) when the fetch of the listing page fails or raises,
\* scrape_past_auctions returns the empty list; main then has no auction to
\* process, calls neither scrape_auction_details nor save_progress, keeps the
\* loaded collection and can only finish.
C18_ListingFailureNotFatal ==
    /\ (site = "menzies" /\ result.status \in {"fail", "raise"}
            /\ pc # "parse_listing") =>
          /\ pc = "loop"
          /\ todo = <<>> /\ idx > Len(todo)
          /\ calls = {} /\ rets = <<>> /\ ckpts = 0
          /\ recs = (IF disk.state = "ok" THEN disk.data ELSE <<>>)
    /\ (site = "menzies" /\ pc = "done" /\ ~fetchOK /\ fetched = {}) =>
          /\ todo = <<>>
          /\ calls = {} /\ rets = <<>> /\ ckpts = 0
          /\ recs = (IF disk.state = "ok" THEN disk.data ELSE <<>>)

\* a second run whose listing fetch failed is done, the snapshot untouched
C18_Witness ==
    /\ site = "menzies" /\ pc = "done" /\ run = 2
    /\ ~fetchOK /\ fetched = {}
    /\ disk.state = "ok" /\ recs = disk.data /\ recs # <<>>

\* C19: whenever the process has been killed, also in the middle of
\* save_progress, the snapshot file is absent or a complete serialization,
\* never empty or truncated.
C19_NoHalfWrittenFile ==
    pc = "idle" => disk.state \in {"absent", "ok"}

RECURSIVE LotsBefore(_, _)
\* how many lots the auctions before the i-th hold
LotsBefore(data, i) ==
    IF i <= 1 THEN 0 ELSE LotsBefore(data, i - 1) + Len(data[i - 1].lots)

\* C20: json_to_csv writes one row per lot, by auction and then by lot, none
\* for an auction without lots; in each row the six auction columns hold the
\* values of the owning auction and the ten lot columns those of the lot.
C20_OneRowPerLot ==
    (pc = "done" /\ disk.state = "ok") =>
        /\ Len(csv) = LotsBefore(disk.data, Len(disk.data) + 1)
        /\ \A i \in 1..Len(disk.data) : \A j \in 1..Len(disk.data[i].lots) :
              LET row == csv[LotsBefore(disk.data, i) + j]
              IN /\ \A c \in 1..Len(AuctionFields) :
                       row[c] = Get(disk.data[i], AuctionFields[c])
                 /\ \A c \in 1..Len(LotFields) :
                       row[Len(AuctionFields) + c]
                          = Get(disk.data[i].lots[j], LotFields[c])

\* the records of a collection bear pairwise different urls
UniqueUrls(rs) == \A i, j \in 1..Len(rs) : rs[i].url = rs[j].url => i = j

\* C21: (auction_scraper) neither the collection in memory nor a snapshot on
\* disk ever holds two records with the same url, whatever the listing shows.
C21_UrlIsUnique ==
    site = "menzies" =>
        /\ UniqueUrls(recs)
        /\ disk.state = "ok" => UniqueUrls(disk.data)

\* C22: (auction_scraper) the k-th page fetch of a call is the fetch of page
\* k, made only when every earlier page was fetched and showed rows and the
\* page before it linked to it; no page beyond the linked ones is fetched.
C22_PagesInOrder ==
    [][site = "menzies" =>
        /\ (pagelog' # pagelog /\ pagelog' # <<>>) =>
              /\ Len(pagelog') = Len(pagelog) + 1
              /\ SubSeq(pagelog', 1, Len(pagelog)) = pagelog
              /\ page = Len(pagelog')
              /\ \A k \in 1..Len(pagelog) : pagelog[k] = "ok"
        /\ (page' # page /\ page' # 0) =>
              IF pc = "loop" THEN page' = 1
              ELSE /\ page' = page + 1
                   /\ has_next
                   /\ pagelog # <<>> /\ pagelog[Len(pagelog)] = "ok"
        /\ page' <= MaxPage]_vars

\* pages 1 and 2 were fetched in that order and page 2 showed no row
C22_Witness ==
    /\ site = "menzies" /\ pc = "save"
    /\ pagelog = <<"ok", "empty">>
    /\ rets[Len(rets)].ok

\* how many auctions main has passed to scrape_auction_details in this run
Passed == IF pc \in {"page", "gather"} THEN Len(rets) + 1 ELSE Len(rets)

\* C23: (auction_scraper) in one run the listing is fetched once, before the
\* loop; no auction is passed to scrape_auction_details twice, whether its
\* call failed or not; and the run is done only when every new auction has
\* been passed once and saved.
C23_OncePerAuction ==
    site = "menzies" =>
        /\ listings <= 1
        /\ pc \in {"loop", "page", "gather", "save", "saving", "done"} => listings = 1
        /\ Passed <= Len(todo)
        /\ \A i, j \in 1..Passed : NewAuctions[i].url = NewAuctions[j].url => i = j
        /\ pc = "done" => (Len(rets) = Len(todo) /\ ckpts = Len(todo))

\* C24: (auction_scraper) once a run has loaded the snapshot, the records it
\* loaded stay in memory as they were loaded; every snapshot on disk holds
\* each of them unchanged; and a snapshot holds nothing but loaded records
\* and new auctions, a new one with no lots or with the lots it has now.
C24_LoadedPreserved ==
    (site = "menzies" /\ pc \notin {"idle", "load"}) =>
        /\ Len(loaded) <= Len(recs)
        /\ SubSeq(recs, 1, Len(loaded)) = loaded
        /\ disk.state = "ok" =>
              /\ \A k \in 1..Len(loaded) : loaded[k] \in Range(disk.data)
              /\ \A d \in Range(disk.data) :
                    \/ d \in Range(loaded)
                    \/ \E i \in 1..Len(todo) :
                          /\ d.url = NewAuctions[i].url
                          /\ d.year = NewAuctions[i].year
                          /\ d.lots \in {<<>>, NewAuctions[i].lots}

\* the second run has loaded an auction with lots, found a new one, filled
\* its lots and saved both
C24_Witness ==
    /\ site = "menzies" /\ pc = "loop" /\ lastSave = "ok" /\ ckpts = 1
    /\ Len(loaded) = 1 /\ loaded[1].lots # <<>>
    /\ Len(todo) = 1 /\ NewAuctions[1].lots # <<>>
    /\ disk.state = "ok" /\ Len(disk.data) = 2

\* C25: a step in which scrape_auction_details returns False changes no
\* record: the lots of the auction stay as they were at the call, empty, also
\* when pages fetched before the failure had yielded lots.
C25_FailureLeavesLotsAlone ==
    [][(Len(rets') = Len(rets) + 1 /\ ~rets'[Len(rets')].ok) =>
          /\ recs' = recs
          /\ Cur.lots = <<>>
          /\ rets'[Len(rets')].lots = <<>>]_vars

\* the call fetched page 1, went on to page 2, whose fetch raised, and
\* returned False with no lots assigned
C25_Witness ==
    /\ pc = "save" /\ pagelog = <<"ok", "raise">>
    /\ ~rets[Len(rets)].ok
    /\ Cur.lots = <<>>

\* C26: (deutscherandhackett_scraper) a run that comes after a failed fetch
\* of the listing page, and in which every fetch works, does not end with
\* that failure still the latest word on the listing: it has fetched the
\* listing itself.
C26_FailedListingIsRetried ==
    (site = "dh" /\ pc = "done" /\ fetchOK /\ listingFailed) => listings = 1

\* C27: (deutscherandhackett_scraper) a run that has loaded a snapshot with
\* auctions in it fetches no listing; fetches nothing for the url of a loaded
\* auction that has lots; passes no url without lots twice; saves after each
\* auction; and has passed every auction of the snapshot once when it ends.
C27_ResumeFromSnapshot ==
    (site = "dh" /\ loaded # <<>>) =>
        /\ listings = 0
        /\ \A k \in 1..Len(loaded) : loaded[k].lots # <<>> => loaded[k].url \notin fetched
        /\ \A i, j \in 1..Passed :
              (loaded[i].lots = <<>> /\ loaded[i].url = loaded[j].url) => i = j
        /\ ckpts \in {Passed - 1, Passed}
        /\ pc \in {"done", "aborted"} => (Passed = Len(loaded) /\ ckpts = Len(loaded))

=============================================================================
